---- MODULE Spec2Model ----
(***************************************************************************)
(* Model of uilib/fileManager.py (openMotor): the FileManager that keeps   *)
(* the undo/redo history of motor snapshots, tracks the saved version,     *)
(* saves and loads motor files behind the unsaved-changes dialog, and      *)
(* merges a loaded motor's propellant into the propellant library.         *)
(*                                                                         *)
(* A Motor object is represented by the dict its getDict() returns, a      *)
(* record [propellant, grains]; "grains" stands for everything in the dict *)
(* besides the propellant.  Python lists are sequences, so the 0-based     *)
(* index i of the code is the element i + 1 here.                          *)
(***************************************************************************)
EXTENDS Integers, Sequences, FiniteSets, TLC

VARIABLES
    fileHistory,     \* FileManager.fileHistory: list of motor dicts
    currentVersion,  \* FileManager.currentVersion: 0-based index
    savedVersion,    \* FileManager.savedVersion: 0-based index
    fileName,        \* FileManager.fileName: a path, or None
    propellants,     \* app.propellantManager.propellants: the library
    disk,            \* the motor files: path -> motor dict
    emitted,         \* fileNameChanged emissions of the last operation
    synced,          \* the dict last written to the document's file or
                     \* handed to startFromMotor with a file name, NoSync
                     \* while there has been neither
    reloads,         \* loads that renamed the propellant since the file was
                     \* last written and since the last direct call of
                     \* startFromMotor or checkPropellant
    op,              \* the last operation: its name, inputs and outcome
    undone           \* the state before the last undo, kept over one redo

vars == <<fileHistory, currentVersion, savedVersion, fileName, propellants,
          disk, emitted, synced, reloads, op, undone>>

-----------------------------------------------------------------------------
(* Bounds of the model *)

MaxHist == 3    \* addNewMotorHistory is explored while the history is shorter
MaxLib == 3     \* new/load are explored while the library is not longer

-----------------------------------------------------------------------------
(* Values *)

None == "None"
NoPropellant == [none |-> TRUE]
NoArg == [noarg |-> TRUE]
NoUndo == [noundo |-> TRUE]
NoSync == [nosync |-> TRUE]

PropA1 == [name |-> "A", burnRate |-> 1]
PropA2 == [name |-> "A", burnRate |-> 2]
PropA1b == [name |-> "A (1)", burnRate |-> 3]
PropB == [name |-> "B", burnRate |-> 1]

\* motorlib.motor.Motor() with the user's preferences: no propellant
DefaultMotor == [propellant |-> NoPropellant, grains |-> 0]

\* the motors the editor hands to addNewMotorHistory / overrideCurrentMotor
Motors == {DefaultMotor, [propellant |-> NoPropellant, grains |-> 1]}

\* the libraries the application may start with (names unique)
Libraries == {<<>>, <<PropA1>>, <<PropA1, PropA1b>>, <<PropB>>}

\* the motor file present on disk at start
InitFiles == {[propellant |-> PropA2, grains |-> 1]}

Paths == {"a.ric"}
SaveDialogResults == {"", "a.ric", "a"}    \* QFileDialog.getSaveFileName
OpenDialogResults == {"", "a.ric"}         \* QFileDialog.getOpenFileName

-----------------------------------------------------------------------------
(* The FileManager's methods, as functions of the state record             *)
(*   s = [fileHistory, currentVersion, savedVersion, fileName,             *)
(*        propellants, disk, synced, reloads, emitted, saveCalls,          *)
(*        saveFailed, loadCalls, libSaves, starts, errors]                 *)
(* where the fields from emitted on log the effects of the running         *)
(* operation: the signals emitted, the calls of saveFile, loadFile,        *)
(* savePropellants and startFromMotor, and the errors reported.            *)

\* self.fileHistory[self.currentVersion]
current(s) == s.fileHistory[s.currentVersion + 1]

\* sendTitleUpdate that reports the file saved whatever the versions are
sendTitleUpdate_alwaysSaved(s) ==
    [s EXCEPT !.emitted =
        Append(@, [fileName |-> s.fileName, isSaved |-> TRUE])]

sendTitleUpdate(s) ==
    [s EXCEPT !.emitted =
        Append(@, [fileName |-> s.fileName,
                   isSaved |-> (s.savedVersion = s.currentVersion)])]

\* canUndo with the comparison off by one
canUndo_offByOne(s) == s.currentVersion >= 0

canUndo(s) == s.currentVersion > 0

canRedo(s) == s.currentVersion < Len(s.fileHistory) - 1

undo(s) ==
    IF canUndo(s)
    THEN sendTitleUpdate([s EXCEPT !.currentVersion = @ - 1])
    ELSE s

\* redo that jumps to the newest entry
redo_toNewest(s) ==
    IF canRedo(s)
    THEN sendTitleUpdate([s EXCEPT !.currentVersion = Len(s.fileHistory) - 1])
    ELSE s

redo(s) ==
    IF canRedo(s)
    THEN sendTitleUpdate([s EXCEPT !.currentVersion = @ + 1])
    ELSE s

\* addNewMotorHistory that keeps the redo tail
addNewMotorHistory_keepsTail(s, motor) ==
    IF motor # current(s)
    THEN sendTitleUpdate([s EXCEPT !.fileHistory = Append(@, motor),
                                   !.currentVersion = @ + 1])
    ELSE s

\* addNewMotorHistory without the comparison with the current entry
addNewMotorHistory_noElision(s, motor) ==
    LET kept == IF canRedo(s)
                THEN SubSeq(s.fileHistory, 1, s.currentVersion + 1)
                ELSE s.fileHistory
    IN  sendTitleUpdate([s EXCEPT !.fileHistory = Append(kept, motor),
                                  !.currentVersion = @ + 1])

addNewMotorHistory(s, motor) ==
    IF motor # current(s)
    THEN LET kept == IF canRedo(s)
                     THEN SubSeq(s.fileHistory, 1, s.currentVersion + 1)
                     ELSE s.fileHistory
         IN  sendTitleUpdate([s EXCEPT !.fileHistory = Append(kept, motor),
                                       !.currentVersion = @ + 1])
    ELSE s

\* self.fileHistory[-1] = motor.getDict()
overrideCurrentMotor(s, motor) ==
    [s EXCEPT !.fileHistory[Len(s.fileHistory)] = motor]

\* path[-4:] != '.ric', on the paths the save dialog can return
endsWithRic(path) == path \in {"a.ric"}

showSaveDialog(path) ==
    IF path = "" \/ path = None
    THEN None
    ELSE IF ~endsWithRic(path) THEN path \o ".ric" ELSE path

RECURSIVE save(_, _), saveAs(_, _)

\* save that marks the version saved before saveFile has returned
save_marksFirst(s, in) ==
    IF s.fileName = None
    THEN saveAs(s, in)
    ELSE LET called == [s EXCEPT !.saveCalls = @ + 1,
                                 !.savedVersion = s.currentVersion]
         IN  IF in.saveOk
             THEN sendTitleUpdate([called EXCEPT !.disk[s.fileName] = current(s),
                                                 !.synced = current(s),
                                                 !.reloads = 0])
             ELSE [called EXCEPT !.saveFailed = TRUE, !.errors = @ + 1]

\* in.saveOk: whether saveFile returns (TRUE) or raises (FALSE)
save(s, in) ==
    IF s.fileName = None
    THEN saveAs(s, in)
    ELSE LET called == [s EXCEPT !.saveCalls = @ + 1]
         IN  IF in.saveOk
             THEN sendTitleUpdate(
                    [called EXCEPT !.disk[s.fileName] = current(s),
                                   !.synced = current(s),
                                   !.reloads = 0,
                                   !.savedVersion = s.currentVersion])
             ELSE [called EXCEPT !.saveFailed = TRUE, !.errors = @ + 1]

\* in.savePath: what the save dialog returns
saveAs(s, in) ==
    LET name == showSaveDialog(in.savePath)
    IN  IF name # None
        THEN save([s EXCEPT !.fileName = name], in)
        ELSE s

\* unsavedCheck that saves on Discard as it does on Save
unsavedCheck_discardSaves(s, in) ==
    IF s.savedVersion # s.currentVersion
    THEN IF in.choice = "Save" \/ in.choice = "Discard"
         THEN [ret |-> TRUE, s |-> save(s, in)]
         ELSE [ret |-> FALSE, s |-> s]
    ELSE [ret |-> TRUE, s |-> s]

\* unsavedCheck that lets the operation go on after Cancel
unsavedCheck_cancelProceeds(s, in) ==
    IF s.savedVersion # s.currentVersion
    THEN IF in.choice = "Save"
         THEN [ret |-> TRUE, s |-> save(s, in)]
         ELSE [ret |-> TRUE, s |-> s]
    ELSE [ret |-> TRUE, s |-> s]

\* in.choice: the button the user presses when the dialog is shown
unsavedCheck(s, in) ==
    IF s.savedVersion # s.currentVersion
    THEN IF in.choice = "Save"
         THEN [ret |-> TRUE, s |-> save(s, in)]
         ELSE IF in.choice = "Discard"
              THEN [ret |-> TRUE, s |-> s]
              ELSE [ret |-> FALSE, s |-> s]
    ELSE [ret |-> TRUE, s |-> s]

\* propellantManager.getNames()
getNames(lib) == {lib[i].name : i \in 1..Len(lib)}

\* propellantManager.getPropellantByName(name): the first entry of that name
getPropellantByName(lib, name) ==
    lib[CHOOSE i \in 1..Len(lib) :
            /\ lib[i].name = name
            /\ \A j \in 1..(i - 1) : lib[j].name # name]

\* name + ' (' + str(addedNumber) + ')'
numberedName(name, addedNumber) ==
    name \o " (" \o ToString(addedNumber) \o ")"

\* the numbering without the loop
addedNumberFrom_noLoop(names, name, n) == n

\* a numbering that does not look for the smallest free number
addedNumberFrom_pastSize(names, name, n) == Cardinality(names) + n

RECURSIVE addedNumberFrom(_, _, _)
\* the while loop: the first number from n on whose numbered name is free
addedNumberFrom(names, name, n) ==
    IF numberedName(name, n) \in names
    THEN addedNumberFrom(names, name, n + 1)
    ELSE n

\* checkPropellant that numbers every propellant it adds, new names too
checkPropellant_numbersNew(s, motor) ==
    IF motor.propellant # NoPropellant
    THEN IF motor.propellant
              \notin {s.propellants[i] : i \in 1..Len(s.propellants)}
         THEN LET addedNumber ==
                      addedNumberFrom(getNames(s.propellants),
                                      motor.propellant.name, 1)
                  renamed ==
                      [motor.propellant EXCEPT !.name =
                          numberedName(motor.propellant.name, addedNumber)]
              IN  [motor |-> [motor EXCEPT !.propellant = renamed],
                   s |-> [s EXCEPT !.propellants = Append(@, renamed),
                                   !.reloads = @ + 1,
                                   !.libSaves = @ + 1]]
         ELSE [motor |-> motor, s |-> s]
    ELSE [motor |-> motor, s |-> s]

\* checkPropellant that saves the library also when it has added nothing
checkPropellant_alwaysSaves(s, motor) ==
    IF motor.propellant # NoPropellant
    THEN IF motor.propellant.name \notin getNames(s.propellants)
         THEN [motor |-> motor,
               s |-> [s EXCEPT !.propellants = Append(@, motor.propellant),
                               !.libSaves = @ + 1]]
         ELSE IF motor.propellant
                    # getPropellantByName(s.propellants, motor.propellant.name)
              THEN LET addedNumber ==
                           addedNumberFrom(getNames(s.propellants),
                                           motor.propellant.name, 1)
                       renamed ==
                           [motor.propellant EXCEPT !.name =
                               numberedName(motor.propellant.name, addedNumber)]
                   IN  [motor |-> [motor EXCEPT !.propellant = renamed],
                        s |-> [s EXCEPT !.propellants = Append(@, renamed),
                                        !.reloads = @ + 1,
                                        !.libSaves = @ + 1]]
              ELSE [motor |-> motor, s |-> [s EXCEPT !.libSaves = @ + 1]]
    ELSE [motor |-> motor, s |-> s]

\* checkPropellant that settles a conflict by replacing the library's entry
checkPropellant_overwrites(s, motor) ==
    IF motor.propellant # NoPropellant
    THEN IF motor.propellant.name \notin getNames(s.propellants)
         THEN [motor |-> motor,
               s |-> [s EXCEPT !.propellants = Append(@, motor.propellant),
                               !.libSaves = @ + 1]]
         ELSE [motor |-> motor,
               s |-> [s EXCEPT !.propellants =
                         [i \in 1..Len(@) |->
                             IF @[i].name = motor.propellant.name
                             THEN motor.propellant ELSE @[i]],
                               !.libSaves = @ + 1]]
    ELSE [motor |-> motor, s |-> s]

\* returns the state (library, log) and the motor, renamed on a conflict
checkPropellant(s, motor) ==
    IF motor.propellant # NoPropellant
    THEN IF motor.propellant.name \notin getNames(s.propellants)
         THEN [motor |-> motor,
               s |-> [s EXCEPT !.propellants = Append(@, motor.propellant),
                               !.libSaves = @ + 1]]
         ELSE IF motor.propellant
                    # getPropellantByName(s.propellants, motor.propellant.name)
              THEN LET addedNumber ==
                           addedNumberFrom(getNames(s.propellants),
                                           motor.propellant.name, 1)
                       renamed ==
                           [motor.propellant EXCEPT !.name =
                               numberedName(motor.propellant.name, addedNumber)]
                   IN  [motor |-> [motor EXCEPT !.propellant = renamed],
                        s |-> [s EXCEPT !.propellants = Append(@, renamed),
                                        !.reloads = @ + 1,
                                        !.libSaves = @ + 1]]
              ELSE [motor |-> motor, s |-> s]
    ELSE [motor |-> motor, s |-> s]

\* startFromMotor that leaves savedVersion as it is
startFromMotor_keepsSaved(s, motor, filename) ==
    LET checked == checkPropellant(s, motor)
    IN  sendTitleUpdate([checked.s EXCEPT !.fileHistory = <<checked.motor>>,
                                          !.currentVersion = 0,
                                          !.fileName = filename,
                                          !.synced = IF filename = None
                                                     THEN NoSync ELSE motor,
                                          !.starts = @ + 1])

startFromMotor(s, motor, filename) ==
    LET checked == checkPropellant(s, motor)
    IN  sendTitleUpdate([checked.s EXCEPT !.fileHistory = <<checked.motor>>,
                                          !.currentVersion = 0,
                                          !.savedVersion = 0,
                                          !.fileName = filename,
                                          !.synced = IF filename = None
                                                     THEN NoSync ELSE motor,
                                          !.starts = @ + 1])

newFile(s, in) ==
    LET guard == unsavedCheck(s, in)
    IN  IF guard.ret
        THEN startFromMotor(guard.s, DefaultMotor, None)
        ELSE guard.s

\* in.path: the argument; in.openPath: what the open dialog returns;
\* in.loadResult: "ok" (loadFile returns the file's dict), "none" (it
\* returns None) or "raise" (it raises: no such file, a parse error, a
\* file of another version)
load(s, in) ==
    LET guard == unsavedCheck(s, in)
        path == IF in.path = None THEN in.openPath ELSE in.path
    IN  IF guard.ret /\ path # ""
        THEN LET called == [guard.s EXCEPT !.loadCalls = @ + 1]
             IN  IF in.loadResult = "raise"
                 THEN [ret |-> FALSE,
                       s |-> [called EXCEPT !.errors = @ + 1]]
                 ELSE IF in.loadResult = "none"
                      THEN [ret |-> FALSE, s |-> called]
                      ELSE [ret |-> TRUE,
                            s |-> startFromMotor(called,
                                                 guard.s.disk[path], path)]
        ELSE [ret |-> FALSE, s |-> guard.s]

-----------------------------------------------------------------------------
(* The state machine *)

\* the state record of the current state, with an empty effect log
State ==
    [fileHistory |-> fileHistory, currentVersion |-> currentVersion,
     savedVersion |-> savedVersion, fileName |-> fileName,
     propellants |-> propellants, disk |-> disk,
     synced |-> synced, reloads |-> reloads,
     emitted |-> <<>>, saveCalls |-> 0, saveFailed |-> FALSE,
     loadCalls |-> 0, libSaves |-> 0, starts |-> 0, errors |-> 0]

\* the indices and lengths of a state, as op.was keeps them
Indices(s) ==
    [currentVersion |-> s.currentVersion, savedVersion |-> s.savedVersion,
     length |-> Len(s.fileHistory), library |-> Len(s.propellants)]

\* the record of an operation called in state s0 that left r
Called(name, arg, choice, path, ret, s0, r) ==
    [name |-> name, arg |-> arg, choice |-> choice, path |-> path,
     ret |-> ret, was |-> Indices(s0), saveCalls |-> r.saveCalls, saveFailed |-> r.saveFailed,
     loadCalls |-> r.loadCalls, libSaves |-> r.libSaves,
     starts |-> r.starts, errors |-> r.errors]

Adopt(r) ==
    /\ fileHistory' = r.fileHistory
    /\ currentVersion' = r.currentVersion
    /\ savedVersion' = r.savedVersion
    /\ fileName' = r.fileName
    /\ propellants' = r.propellants
    /\ disk' = r.disk
    /\ synced' = r.synced
    /\ reloads' = r.reloads
    /\ emitted' = r.emitted

\* the inputs save() reads in a state whose file name is name: the save
\* dialog's result when there is no file name, and whether saveFile returns
\* (TRUE) or raises (FALSE) when there is a file to write; saveFile is made
\* to raise under one of the dialog's results, it does not read which
SaveInputs(name) ==
    IF name = None
    THEN {[savePath |-> p, saveOk |-> TRUE] : p \in SaveDialogResults}
         \cup {[savePath |-> p, saveOk |-> FALSE] : p \in Paths}
    ELSE {[savePath |-> "", saveOk |-> k] : k \in BOOLEAN}

\* the inputs of unsavedCheck(): the button is drawn only when the dialog
\* is shown, the inputs of save() only when Save is pressed
GuardInputs ==
    IF savedVersion # currentVersion
    THEN {[choice |-> "Save", savePath |-> i.savePath, saveOk |-> i.saveOk] :
              i \in SaveInputs(fileName)}
         \cup {[choice |-> c, savePath |-> "", saveOk |-> TRUE] :
                  c \in {"Discard", "Cancel"}}
    ELSE {[choice |-> "-", savePath |-> "", saveOk |-> TRUE]}

\* the inputs of load() after the guard: the path argument, the open
\* dialog's result when there is none, and what loadFile does with a path
LoadInputs ==
    {[path |-> None, openPath |-> p, loadResult |-> "ok"] :
        p \in OpenDialogResults}
    \cup {[path |-> p, openPath |-> "", loadResult |-> r] :
              p \in Paths, r \in {"ok", "none", "raise"}}

\* __init__: empty history, then newFile()
Constructed(lib, file) ==
    [fileHistory |-> <<>>, currentVersion |-> 0, savedVersion |-> 0,
     fileName |-> None, propellants |-> lib,
     disk |-> [p \in Paths |-> file],
     synced |-> NoSync, reloads |-> 0,
     emitted |-> <<>>, saveCalls |-> 0, saveFailed |-> FALSE,
     loadCalls |-> 0, libSaves |-> 0, starts |-> 0, errors |-> 0]

Init ==
    \E lib \in Libraries, file \in InitFiles :
        LET s0 == Constructed(lib, file)
            r == newFile(s0, [choice |-> "-", savePath |-> "", saveOk |-> TRUE])
        IN  /\ fileHistory = r.fileHistory
            /\ currentVersion = r.currentVersion
            /\ savedVersion = r.savedVersion
            /\ fileName = r.fileName
            /\ propellants = r.propellants
            /\ disk = r.disk
            /\ synced = r.synced
            /\ reloads = r.reloads
            /\ emitted = r.emitted
            /\ op = Called("__init__", NoArg, "-", None, TRUE, s0, r)
            /\ undone = NoUndo

NewFile ==
    \E in \in GuardInputs :
        \E r \in {newFile(State, in)} :
            /\ Len(r.propellants) <= MaxLib
            /\ Adopt(r)
            /\ op' = Called("newFile", NoArg, in.choice, None, TRUE, State, r)
            /\ undone' = NoUndo

Load ==
    \E g \in GuardInputs, l \in LoadInputs :
        \E res \in {load(State, [choice |-> g.choice, savePath |-> g.savePath,
                                 saveOk |-> g.saveOk, path |-> l.path,
                                 openPath |-> l.openPath,
                                 loadResult |-> l.loadResult])} :
            /\ Len(res.s.propellants) <= MaxLib
            /\ Adopt(res.s)
            /\ op' = Called("load", NoArg, g.choice,
                            IF l.path = None THEN l.openPath ELSE l.path,
                            res.ret, State, res.s)
            /\ undone' = NoUndo

Save ==
    \E i \in SaveInputs(fileName) :
        \E r \in {save(State, [choice |-> "-", savePath |-> i.savePath,
                              saveOk |-> i.saveOk])} :
            /\ Adopt(r)
            /\ op' = Called("save", NoArg, "-", None, TRUE, State, r)
            /\ undone' = NoUndo

SaveAs ==
    \E i \in SaveInputs(None) :
        \E r \in {saveAs(State, [choice |-> "-", savePath |-> i.savePath,
                                saveOk |-> i.saveOk])} :
            /\ Adopt(r)
            /\ op' = Called("saveAs", NoArg, "-", None, TRUE, State, r)
            /\ undone' = NoUndo

AddNewMotorHistory ==
    \E motor \in Motors :
        \E r \in {addNewMotorHistory(State, motor)} :
            /\ Len(r.fileHistory) <= MaxHist
            /\ Adopt(r)
            /\ op' = Called("addNewMotorHistory", motor, "-", None, TRUE, State, r)
            /\ undone' = NoUndo

OverrideCurrentMotor ==
    \E motor \in Motors :
        \E r \in {overrideCurrentMotor(State, motor)} :
            /\ Adopt(r)
            /\ op' = Called("overrideCurrentMotor", motor, "-", None, TRUE, State, r)
            /\ undone' = NoUndo

Undo ==
    \E r \in {undo(State)} :
        /\ Adopt(r)
        /\ op' = Called("undo", NoArg, "-", None, TRUE, State, r)
        /\ undone' = [fileHistory |-> fileHistory,
                       currentVersion |-> currentVersion,
                       savedVersion |-> savedVersion]

Redo ==
    \E r \in {redo(State)} :
        /\ Adopt(r)
        /\ op' = Called("redo", NoArg, "-", None, TRUE, State, r)
        /\ undone' = IF op.name = "undo" THEN undone ELSE NoUndo

\* the motors a caller hands to startFromMotor and checkPropellant directly
GivenMotors == Motors \cup InitFiles

\* startFromMotor(motor, filename = None) called on its own, without the guard
StartFromMotor ==
    \E motor \in GivenMotors, filename \in {None} \cup Paths :
        \E r \in {startFromMotor(State, motor, filename)} :
            /\ Len(r.propellants) <= MaxLib
            /\ Adopt([r EXCEPT !.reloads = 0])
            /\ op' = Called("startFromMotor", motor, "-", filename, TRUE,
                            State, r)
            /\ undone' = NoUndo

\* checkPropellant(motor) called on its own; op.ret is the motor it returns
CheckPropellant ==
    \E motor \in GivenMotors :
        \E r \in {checkPropellant(State, motor)} :
            /\ Len(r.s.propellants) <= MaxLib
            /\ Adopt([r.s EXCEPT !.reloads = 0])
            /\ op' = Called("checkPropellant", motor, "-", None, r.motor,
                            State, r.s)
            /\ undone' = NoUndo

\* unsavedCheck() called on its own; op.ret is what it returns
UnsavedCheck ==
    \E in \in GuardInputs :
        \E r \in {unsavedCheck(State, in)} :
            /\ Adopt(r.s)
            /\ op' = Called("unsavedCheck", NoArg, in.choice, None, r.ret,
                            State, r.s)
            /\ undone' = NoUndo

\* sendTitleUpdate() called on its own
SendTitleUpdate ==
    \E r \in {sendTitleUpdate(State)} :
        /\ Adopt(r)
        /\ op' = Called("sendTitleUpdate", NoArg, "-", None, TRUE, State, r)
        /\ undone' = NoUndo

Next ==
    \/ NewFile
    \/ Load
    \/ Save
    \/ SaveAs
    \/ AddNewMotorHistory
    \/ OverrideCurrentMotor
    \/ Undo
    \/ Redo
    \/ StartFromMotor
    \/ CheckPropellant
    \/ UnsavedCheck
    \/ SendTitleUpdate

Spec == Init /\ [][Next]_vars

-----------------------------------------------------------------------------
(* The claims *)

Destructive == {"newFile", "load"}
Dirty == savedVersion # currentVersion

\* C1: when the document is dirty, new or load is triggered, Save is chosen
\* in the unsaved-changes dialog and the save fails, the operation does not
\* proceed: the history, the current and the saved version stay as they were.
C1_FailedGuardSaveAborts ==
    [][(/\ op'.name \in Destructive
        /\ Dirty
        /\ op'.choice = "Save"
        /\ op'.saveFailed)
       => UNCHANGED <<fileHistory, currentVersion, savedVersion>>]_vars

\* C2: overrideCurrentMotor(motor) replaces exactly the entry at the current
\* version, in every reachable state; the current version and the length of
\* the history stay, so the current motor afterwards is the overriding one.
C2_OverrideReplacesCurrent ==
    [][op'.name = "overrideCurrentMotor"
       => /\ fileHistory' =
                [fileHistory EXCEPT ![currentVersion + 1] = op'.arg]
          /\ currentVersion' = currentVersion
          /\ fileHistory'[currentVersion' + 1] = op'.arg]_vars

\* C3: the history always has at least one entry and the current version is
\* an index into it; undo at version 0 and redo at the last version change
\* nothing.
C3_CursorInRange ==
    /\ [](/\ Len(fileHistory) >= 1
          /\ currentVersion \in 0..(Len(fileHistory) - 1))
    /\ [][(\/ op'.name = "undo" /\ currentVersion = 0
           \/ op'.name = "redo" /\ currentVersion = Len(fileHistory) - 1)
          => UNCHANGED <<fileHistory, currentVersion, savedVersion, fileName,
                         propellants, disk>>]_vars

C3_Witness ==
    /\ op.name = "undo"
    /\ op.was.currentVersion = 0
    /\ op.was.length >= 2
    /\ currentVersion = 0
    /\ emitted = <<>>

\* C4: addNewMotorHistory(motor) with a motor different from the current
\* entry drops every entry after the current version, appends the motor and
\* makes it current: afterwards canRedo() is false, the length is the current
\* version plus one and the entries before the new one are unchanged.
C4_AddTruncatesRedoTail ==
    [][(op'.name = "addNewMotorHistory" /\ op'.arg # fileHistory[currentVersion + 1])
       => /\ fileHistory' =
                Append(SubSeq(fileHistory, 1, currentVersion + 1), op'.arg)
          /\ currentVersion' = Len(fileHistory') - 1
          /\ Len(fileHistory') = currentVersion' + 1
          /\ ~(currentVersion' < Len(fileHistory') - 1)
          /\ \A i \in 1..currentVersion' : fileHistory'[i] = fileHistory[i]
          /\ fileHistory'[currentVersion' + 1] = op'.arg]_vars

\* an add, right after an undo, that has dropped the redo tail
C4_Witness ==
    /\ op.name = "addNewMotorHistory"
    /\ op.was.currentVersion < op.was.length - 1
    /\ emitted # <<>>
    /\ currentVersion = op.was.currentVersion + 1
    /\ Len(fileHistory) = currentVersion + 1
    /\ fileHistory[currentVersion + 1] = op.arg

\* C5: addNewMotorHistory with a motor equal to the current entry changes
\* nothing: the history (any redo tail included), the current version and
\* the saved version stay.
C5_AddOfCurrentIsNoOp ==
    [][(op'.name = "addNewMotorHistory" /\ op'.arg = fileHistory[currentVersion + 1])
       => UNCHANGED <<fileHistory, currentVersion, savedVersion>>]_vars

\* an add of the current entry while there is a redo tail
C5_Witness ==
    /\ op.name = "addNewMotorHistory"
    /\ op.arg = fileHistory[currentVersion + 1]
    /\ emitted = <<>>
    /\ op.was.currentVersion = currentVersion
    /\ currentVersion < Len(fileHistory) - 1

\* C6: at a current version above 0 (as left by addNewMotorHistory calls
\* with pairwise distinct motors), undo() followed at once by redo() restores
\* the current version and the current motor, and leaves the history and the
\* saved version as they were.
C6_UndoRedoRoundTrip ==
    (/\ op.name = "redo"
     /\ undone # NoUndo
     /\ undone.currentVersion > 0)
    => /\ currentVersion = undone.currentVersion
       /\ fileHistory[currentVersion + 1]
            = undone.fileHistory[undone.currentVersion + 1]
       /\ fileHistory = undone.fileHistory
       /\ savedVersion = undone.savedVersion

\* a redo right after an undo from the middle of a history of three
\* pairwise distinct motors
C6_Witness ==
    /\ op.name = "redo"
    /\ undone # NoUndo
    /\ undone.currentVersion = 1
    /\ Len(fileHistory) = 3
    /\ \A i, j \in 1..3 : i # j => fileHistory[i] # fileHistory[j]
    /\ emitted # <<>>

\* C7: save() with a file name set: when saveFile returns, the saved version
\* becomes the current version and the document is not dirty; when it raises,
\* the saved version, the current version and the history are untouched and
\* the document is as dirty as before.
C7_SaveMarksOnlyOnSuccess ==
    [][(op'.name = "save" /\ fileName # None)
       => /\ op'.saveCalls = 1
          /\ IF op'.saveFailed
             THEN /\ UNCHANGED <<fileHistory, currentVersion, savedVersion>>
                  /\ (savedVersion' # currentVersion') = Dirty
             ELSE /\ UNCHANGED <<fileHistory, currentVersion>>
                  /\ savedVersion' = currentVersion'
                  /\ ~(savedVersion' # currentVersion')]_vars

\* a failed save of a dirty document that has a file name
C7_Witness ==
    /\ op.name = "save"
    /\ op.saveFailed
    /\ fileName # None
    /\ Dirty
    /\ op.was.savedVersion = savedVersion

Last(seq) == seq[Len(seq)]

Notifying ==
    {"addNewMotorHistory", "overrideCurrentMotor", "undo", "redo", "load",
     "save", "newFile"}

\* C8, as stated: a notification is emitted after every operation that
\* affects the current version, the history or the saved version, be it an
\* add, override, undo, redo, load, save or new, with isSaved = (saved
\* version = current version) in the state the operation leaves.
C8_EveryChangeNotifies ==
    [][(/\ op'.name \in Notifying
        /\ <<fileHistory, currentVersion, savedVersion>>'
             # <<fileHistory, currentVersion, savedVersion>>)
       => /\ emitted' # <<>>
          /\ Last(emitted').isSaved = (savedVersion' = currentVersion')]_vars

\* C8, amended: a notification is emitted after each add, undo, redo, load,
\* save and new that changes the history, the current version or the saved
\* version, with isSaved = (saved version = current version) in the state
\* the operation leaves; overrideCurrentMotor emits none.
C8_ChangesNotifyExceptOverride ==
    [][/\ (/\ op'.name \in Notifying \ {"overrideCurrentMotor"}
           /\ <<fileHistory, currentVersion, savedVersion>>'
                # <<fileHistory, currentVersion, savedVersion>>)
          => /\ emitted' # <<>>
             /\ Last(emitted').isSaved = (savedVersion' = currentVersion')
       /\ op'.name = "overrideCurrentMotor" => emitted' = <<>>]_vars

\* an undo back to the saved version, notified as saved
C8_Witness ==
    /\ op.name = "undo"
    /\ op.was.currentVersion = currentVersion + 1
    /\ savedVersion = currentVersion
    /\ emitted = <<[fileName |-> fileName, isSaved |-> TRUE]>>

\* the names of a library
NamesOf(lib) == {lib[i].name : i \in 1..Len(lib)}

\* C9: loading a document whose propellant has the name of a library entry
\* but other properties appends exactly one entry, named "<name> (N)" for the
\* smallest N >= 1 that is not a library name and carrying the document's
\* properties, and the adopted document's propellant has that name; library
\* [{A, 1}] and document {A, 2} give [{A, 1}, {A (1), 2}] and "A (1)".
C9_CollisionAddsNumberedEntry ==
    [][(/\ op'.name = "load"
        /\ op'.ret
        /\ disk'[op'.path].propellant # NoPropellant
        /\ \E i \in 1..Len(propellants) :
              /\ propellants[i].name = disk'[op'.path].propellant.name
              /\ propellants[i] # disk'[op'.path].propellant)
       => LET doc == disk'[op'.path]
              adopted == fileHistory'[1]
          IN  /\ \E N \in 1..(Len(propellants) + 1) :
                    LET new == doc.propellant.name \o " ("
                                   \o ToString(N) \o ")"
                    IN  /\ new \notin NamesOf(propellants)
                        /\ \A k \in 1..(N - 1) :
                              (doc.propellant.name \o " (" \o ToString(k) \o ")")
                                  \in NamesOf(propellants)
                        /\ propellants' =
                              Append(propellants,
                                     [name |-> new,
                                      burnRate |-> doc.propellant.burnRate])
                        /\ adopted.propellant.name = new
              /\ adopted.propellant.burnRate = doc.propellant.burnRate
              /\ adopted.grains = doc.grains
              /\ (propellants = <<[name |-> "A", burnRate |-> 1]>>
                  /\ doc.propellant = [name |-> "A", burnRate |-> 2])
                 => /\ propellants' = <<[name |-> "A", burnRate |-> 1],
                                        [name |-> "A (1)", burnRate |-> 2]>>
                    /\ adopted.propellant.name = "A (1)"]_vars

\* a load that found "A" and "A (1)" taken and added the document's
\* propellant as "A (2)"
C9_Witness ==
    /\ op.name = "load"
    /\ op.ret
    /\ op.was.library = 2
    /\ propellants = <<PropA1, PropA1b, [name |-> "A (2)", burnRate |-> 2]>>
    /\ fileHistory = <<[propellant |-> [name |-> "A (2)", burnRate |-> 2],
                        grains |-> 1]>>

\* C10: over any sequence of new and load operations the library only grows
\* by appending (earlier entries keep their name and properties) and its
\* names stay pairwise distinct.
C10_LibraryAppendOnlyUniqueNames ==
    /\ [](\A i, j \in 1..Len(propellants) :
             i # j => propellants[i].name # propellants[j].name)
    /\ [][op'.name \in Destructive
          => /\ Len(propellants') >= Len(propellants)
             /\ SubSeq(propellants', 1, Len(propellants)) = propellants]_vars

\* a load that appended to a library of two entries
C10_Witness ==
    /\ op.name = "load"
    /\ op.was.library = 2
    /\ Len(propellants) = 3
    /\ propellants[1] = PropA1

\* the document a new or load that went through handed to startFromMotor
Opened == IF op.name = "load" THEN disk[op.path] ELSE DefaultMotor

\* C11: after a new that proceeds or a load that completes, the history is
\* the single adopted document (with the propellant as the library has it),
\* the current and the saved version are 0 and the document is not dirty,
\* whatever they were before.
C11_OpenedDocumentIsClean ==
    (op.name \in Destructive /\ op.starts = 1)
    => /\ Len(fileHistory) = 1
       /\ currentVersion = 0
       /\ savedVersion = 0
       /\ ~Dirty
       /\ fileHistory[1].grains = Opened.grains
       /\ IF Opened.propellant = NoPropellant
          THEN fileHistory[1].propellant = NoPropellant
          ELSE /\ fileHistory[1].propellant.burnRate
                    = Opened.propellant.burnRate
               /\ \E i \in 1..Len(propellants) :
                      propellants[i] = fileHistory[1].propellant

\* a load completed over a dirty history of three entries saved at 1
C11_Witness ==
    /\ op.name = "load"
    /\ op.ret
    /\ op.starts = 1
    /\ op.was.length = 3
    /\ op.was.currentVersion = 2
    /\ op.was.savedVersion = 1
    /\ fileHistory = <<disk[op.path]>>

\* C12: when the document is dirty and Discard is chosen in the dialog of
\* new, the history becomes the single default motor and saveFile is not
\* called.
C12_DiscardResetsWithoutSaving ==
    (op.name = "newFile" /\ op.choice = "Discard")
    => /\ fileHistory = <<DefaultMotor>>
       /\ currentVersion = 0
       /\ op.saveCalls = 0

\* a new with Discard over a dirty document that has a file name
C12_Witness ==
    /\ op.name = "newFile"
    /\ op.choice = "Discard"
    /\ op.was.currentVersion # op.was.savedVersion
    /\ op.was.length = 3
    /\ synced = NoSync
    /\ disk["a.ric"] \in Motors

\* C13: when the document is dirty and Cancel is chosen in the dialog of new
\* or load, nothing changes (history, current and saved version, file name,
\* library), neither saveFile nor loadFile is called, and load returns False.
C13_CancelChangesNothing ==
    [][(op'.name \in Destructive /\ Dirty /\ op'.choice = "Cancel")
       => /\ UNCHANGED <<fileHistory, currentVersion, savedVersion, fileName,
                         propellants, disk>>
          /\ op'.saveCalls = 0
          /\ op'.loadCalls = 0
          /\ op'.starts = 0
          /\ op'.name = "load" => ~op'.ret]_vars

\* a load cancelled in the dialog
C13_Witness ==
    /\ op.name = "load"
    /\ op.choice = "Cancel"
    /\ ~op.ret
    /\ Dirty
    /\ Len(fileHistory) >= 2

\* History, Cursor, SavedMarker, the file path and the library
Memory == <<fileHistory, currentVersion, savedVersion, fileName, propellants>>

\* C14: every failed operation leaves the in-memory state as it was: a load
\* whose loadFile raises, and a save or saveAs whose saveFile raises, leave
\* the history, the current and the saved version, the file name and the
\* library unchanged.
C14_FailedOperationChangesNothing ==
    [][(\/ op'.name \in {"save", "saveAs"} /\ op'.saveFailed
        \/ /\ op'.name = "load"
           /\ op'.loadCalls = 1
           /\ op'.errors = 1
           /\ op'.saveCalls = 0)
       => UNCHANGED Memory]_vars

\* the call o ran checkPropellant: on its own, or inside startFromMotor
Reconciles(o) == o.name = "checkPropellant" \/ o.starts = 1

\* the document the call o handed to checkPropellant, d being the files
Given(o, d) ==
    IF o.name = "load" THEN d[o.path]
    ELSE IF o.name = "newFile" THEN DefaultMotor
    ELSE o.arg

\* the document checkPropellant gave back in the call o: what a call of its
\* own returned, else what startFromMotor put in the history h
Reconciled(o, h) == IF o.name = "checkPropellant" THEN o.ret ELSE h[1]

\* C15: reconciling a document whose propellant name is not in the library
\* appends exactly one entry, the document's propellant under its own name
\* (an empty library becomes a library of size 1), persists the library, and
\* leaves the document's propellant not renamed.
C15_AbsentNameIsAppended ==
    [][(/\ Reconciles(op')
        /\ Given(op', disk').propellant # NoPropellant
        /\ Given(op', disk').propellant.name \notin NamesOf(propellants))
       => /\ propellants' = Append(propellants, Given(op', disk').propellant)
          /\ Len(propellants) = 0 => Len(propellants') = 1
          /\ Reconciled(op', fileHistory') = Given(op', disk')
          /\ op'.libSaves = 1]_vars

\* a load that added the document's propellant to a library that had an
\* entry of another name
C15_Witness ==
    /\ op.name = "load"
    /\ op.ret
    /\ op.was.library = 1
    /\ propellants = <<PropB, PropA2>>
    /\ fileHistory[1].propellant = PropA2

\* C16: reconciling a document that has no propellant, or whose propellant
\* is equal to a library entry in name and properties, leaves the library
\* and the document's propellant as they are and does not persist the
\* library.
C16_MatchingOrNoPropellantIsNoOp ==
    [][(/\ Reconciles(op')
        /\ \/ Given(op', disk').propellant = NoPropellant
           \/ \E i \in 1..Len(propellants) :
                  propellants[i] = Given(op', disk').propellant)
       => /\ propellants' = propellants
          /\ Reconciled(op', fileHistory') = Given(op', disk')
          /\ op'.libSaves = 0]_vars

\* checkPropellant called with a document whose propellant an earlier load
\* has added
C16_Witness ==
    /\ op.name = "checkPropellant"
    /\ op.arg = [propellant |-> PropA2, grains |-> 1]
    /\ op.ret = op.arg
    /\ op.libSaves = 0
    /\ op.was.library = 2
    /\ propellants = <<PropB, PropA2>>
    /\ fileHistory = <<[propellant |-> PropA2, grains |-> 1]>>

\* the propellant of the file on disk under the number n
Numbered(path, n) ==
    [disk[path].propellant EXCEPT
        !.name = numberedName(disk[path].propellant.name, n)]

\* C17 as stated: after k loads of a colliding document that is not saved
\* again the library holds k more entries named "<name> (1)" ... "<name> (k)"
\* with the document's properties.
C17_ReloadsAppendOneToK ==
    \A path \in Paths :
        (reloads >= 1 /\ fileName = path)
        => \A i \in 1..reloads :
               propellants[Len(propellants) - reloads + i]
                   = Numbered(path, i)

\* C17: each of k loads of a colliding document that is not saved again
\* appends one more entry with the document's properties, named
\* "<name> (N)" for the smallest N >= 1 free at that load; the k entries are
\* "<name> (1)" ... "<name> (k)" when the library had no such name before.
C17_ReloadsAppendSmallestFree ==
    \A path \in Paths :
        (reloads >= 1 /\ fileName = path)
        => LET base == Len(propellants) - reloads
               taken(i) == NamesOf(SubSeq(propellants, 1, base + i - 1))
               numbers == 1..Len(propellants)
           IN  /\ base >= 1
               /\ \A i \in 1..reloads :
                      \E n \in numbers :
                          /\ propellants[base + i] = Numbered(path, n)
                          /\ Numbered(path, n).name \notin taken(i)
                          /\ \A m \in 1..(n - 1) :
                                 Numbered(path, m).name \in taken(i)
               /\ (\A n \in numbers : Numbered(path, n).name \notin taken(1))
                  => \A i \in 1..reloads :
                         propellants[base + i] = Numbered(path, i)

\* the colliding document loaded twice into the library [{A, 1}]
C17_Witness ==
    /\ reloads = 2
    /\ op.name = "load"
    /\ op.ret
    /\ propellants = <<PropA1, [name |-> "A (1)", burnRate |-> 2],
                       [name |-> "A (2)", burnRate |-> 2]>>

\* C18: a document saved to or loaded from a file that is clean (saved
\* version = current version) has as its current entry the content last
\* written to or read from that file.
C18_CleanMeansEqualToFile ==
    (synced # NoSync /\ ~Dirty) => fileHistory[currentVersion + 1] = synced

\* C19: when the guard of new or load runs on a dirty document without a
\* file name, Save is chosen and the save dialog is cancelled (saveFile is
\* not called), the operation does not proceed and the history, the current
\* and the saved version are kept.
C19_CancelledGuardSaveAborts ==
    [][(/\ op'.name \in Destructive
        /\ Dirty
        /\ fileName = None
        /\ op'.choice = "Save"
        /\ op'.saveCalls = 0)
       => /\ op'.starts = 0
          /\ op'.loadCalls = 0
          /\ UNCHANGED <<fileHistory, currentVersion, savedVersion>>]_vars

\* C20: the saved version is always an index of the history.
C20_SavedVersionInRange ==
    savedVersion \in 0..(Len(fileHistory) - 1)

====
